---- MODULE Spec2Model ----
(***************************************************************************)
(* Model of fake_web_events/simulation.py: the Simulation class, its       *)
(* constructor, the clock (wait), the arrival sampler (create_sessions),   *)
(* the growth scheduler (randomize_sess_ts), the registry advance/prune    *)
(* (update_all_sessions), the generator run with its emission policy, and  *)
(* the formatting of an event (yield_event, json_serial).                  *)
(*                                                                         *)
(* Time is held in whole seconds.  sim_days is held as the number of       *)
(* seconds it stands for (sim_days * 86400): the constructor takes any     *)
(* number, fractions of a day included.  A real number is held as a record *)
(* [num, den] with den > 0.                                                *)
(***************************************************************************)
EXTENDS Integers, Sequences, FiniteSets, TLC

VARIABLES
    pc,                \* position of the caller / of the generator run
    err,               \* name of the exception that ended __init__ or run
    sim_days,          \* constructor argument, in seconds (see above)
    batch_size,        \* constructor argument
    sessions_per_day,  \* constructor argument
    growth,            \* constructor argument
    always_forward,    \* constructor argument
    yield_as_json,     \* constructor argument
    yield_modal,       \* the configuration's yield_modal preference
    user_pool,         \* self.user_pool: the types of the values its profiles carry
    init_time_arg,     \* constructor argument init_time: <<t>>, <<>> if omitted
    def_time,          \* datetime.now() when the def of __init__ was run
    ctor_time,         \* datetime.now() when the constructor is called
    init_time,         \* self.init_time
    cur_time,          \* self.cur_time
    stop_time,         \* self.stop_time
    rate,              \* self.rate, [num, den]
    qty_events,        \* self.qty_events
    cur_sessions,      \* self.cur_sessions, a sequence of Event objects
    next_id,           \* identity of the next Event object allocated
    duration_seconds,  \* argument of run
    start,             \* local of run: start = time()
    wall,              \* the wall clock read by time()
    steps,             \* iterations of the while loop begun so far
    idx,               \* position of the for loop over self.cur_sessions
    prev_time,         \* self.cur_time before the last wait
    snapshot,          \* update_all_sessions: ids of list(self.cur_sessions)
    advanced,          \* update_all_sessions: ids passed to update, in order
    inactive,          \* update_all_sessions: ids that reported not is_active()
    draws,             \* create_sessions: the growth draws of this step
    visit,             \* run: the last session the for loop evaluated
    emitted,           \* run: the events yielded in the current step
    yielded            \* run: the number of events yielded since run began

\* what the caller hands to the constructor, never assigned afterwards
inputs == <<sim_days, batch_size, sessions_per_day, growth, always_forward,
            yield_as_json, yield_modal, user_pool, init_time_arg, def_time,
            ctor_time, init_time>>

vars == <<pc, err, inputs, cur_time, stop_time,
          rate, qty_events, cur_sessions, next_id, duration_seconds, start,
          wall, steps, idx, prev_time, snapshot, advanced, inactive, draws,
          visit, emitted, yielded>>

(***************************************************************************)
(* Bounds of the model.                                                    *)
(***************************************************************************)
MaxSteps == 2          \* iterations of the while loop explored
DrawDen == 2           \* random draws are multiples of 1/DrawDen
MaxRegistry == 3       \* sessions in the registry a lone step starts from

(***************************************************************************)
(* Program constants.                                                      *)
(***************************************************************************)
SecondsPerHour == 3600 \* get_steps_per_hour: 3600 / self.batch_size
ExpCap == 8            \* randomize_sess_ts: (8 - ratio) / 8 if ratio < 8 else 1

None == "None"         \* Python's None

(***************************************************************************)
(* Inputs.                                                                 *)
(***************************************************************************)
SimDaysSet == {-8, 0, 3, 8}
BatchSizes == {-4, 0, 3, 4, 8}
SessionsPerDaySet == {450}
GrowthModes == {"linear", "exp", None, "LINEAR"}
InitTimes == {3595}
Durations == {0, 1}

\* The values datetime.now() returned when the def statement of __init__ was
\* run (the module's import) and when the constructor is called: at the
\* import, or four seconds later.
ImportTimes == {3595}
ConstructionTimes == {3595, 3599}

\* Types of the value a user profile carries into the record of a session:
\* a primitive, a timestamp type, a container and a type json knows nothing
\* of.  A user pool hands out profiles of the types it holds.
Pools == {{"str"}, {"date", "list"}, {"str", "set"}}

\* The types json.dumps encodes by itself, without the default hook.
Primitives == {"str", "int", "float", "bool", "NoneType"}
Containers == {"list", "tuple", "dict"}

\* Values of Event.custom_event; "signup" is the modal event of the config.
CustomEvents == {None, "pageview", "click", "signup"}
ModalEvent == "signup"

(***************************************************************************)
(* Arithmetic helpers.                                                     *)
(***************************************************************************)
\* Python int(n / d): truncation toward zero, d > 0
Trunc(n, d) == IF n >= 0 THEN n \div d ELSE -((-n) \div d)

\* n / d rounded to the nearest integer, ties to even, d > 0
\* (timedelta.__mul__ by a float rounds half to even)
RoundHalfEven(n, d) ==
    LET q == n \div d
        r == n % d
    IN  IF 2 * r < d THEN q
        ELSE IF 2 * r > d THEN q + 1
        ELSE IF q % 2 = 0 THEN q ELSE q + 1

\* int(self.batch_size * 0.3)
JitterBound(b) == Trunc(3 * b, 10)

\* Python's a ^ b on booleans
Xor(a, b) == a # b

(***************************************************************************)
(* Collaborators outside simulation.py: the configuration's rate curve and *)
(* the Event class (the session).                                          *)
(***************************************************************************)
\* self.config['visits_per_hour'][hour]: 24 non-negative multipliers
VisitsPerHour(h) ==
    IF h % 2 = 0 THEN [num |-> 1, den |-> 2] ELSE [num |-> 1, den |-> 1]

\* self.user_pool.get_user(): one user profile, a value of type ty
GetUser(ty) == [type |-> ty, value |-> IF ty = "list" THEN <<0>> ELSE 0]

\* Event(current_timestamp, user, batch_size, always_forward, config): a new
\* session is active, holds the effective timestamp and the user profile it
\* was given and stands on its first page; the modal event's name and the
\* yield_modal preference come from the configuration.
EventInit(id, ts, ym, user) ==
    [id |-> id, current_timestamp |-> ts, active |-> TRUE,
     is_new_page |-> TRUE, custom_event |-> None,
     modal_event |-> ModalEvent, modal |-> FALSE, yield_modal |-> ym,
     user |-> user]

\* What one call of Event.update may leave in the transition fields.  A
\* session that ended is dropped by the registry, its other fields unread.
UpdateOutcomes ==
    {o \in [active : BOOLEAN, is_new_page : BOOLEAN,
            custom_event : CustomEvents, modal : BOOLEAN] :
        ~o.active => (~o.is_new_page /\ o.custom_event = None /\ ~o.modal)}

\* Event.update(timestamp, always_forward): the session takes the simulated
\* timestamp it is handed as its own and steps its page/event state.
EventUpdate(s, timestamp, forward, o) ==
    [s EXCEPT !.current_timestamp = timestamp, !.active = o.active,
              !.is_new_page = o.is_new_page,
              !.custom_event = o.custom_event, !.modal = o.modal]

\* Event.is_active()
IsActive(s) == s.active

\* Event.asdict(): the structured record of the session
AsDict(s) ==
    [session |-> s.id, timestamp |-> s.current_timestamp, user |-> s.user]

\* a == b on Event objects: object identity
SameObject(a, b) == a.id = b.id

(***************************************************************************)
(* Clock and rate (get_curr_duration, get_steps_per_hour,                  *)
(* get_rate_per_step, wait).                                               *)
(***************************************************************************)
\* self.cur_time - self.init_time
CurrDuration(cur, init) == cur - init

\* datetime.hour of a time held in seconds
Hour(t) == (t \div SecondsPerHour) % 24

\* 3600 / self.batch_size, for batch_size # 0
StepsPerHour(b) == [num |-> SecondsPerHour, den |-> b]

\* the rate per step read off the hour the simulation began in
RatePerStepAtInit(t, spd, b) ==
    LET hr == VisitsPerHour(Hour(init_time))
        sph == StepsPerHour(b)
    IN  [num |-> hr.num * spd * sph.den, den |-> hr.den * sph.num]

\* hourly_rate * self.sessions_per_day / self.get_steps_per_hour()
RatePerStep(t, spd, b) ==
    LET hr == VisitsPerHour(Hour(t))
        sph == StepsPerHour(b)
    IN  [num |-> hr.num * spd * sph.den, den |-> hr.den * sph.num]

\* the jitter with the backward window as wide as three steps
JitterRangeWide(b, forward) ==
    LET min_range == IF forward THEN 0 ELSE -(3 * b)
        max_range == JitterBound(b)
    IN  min_range .. (max_range - 1)

\* the jitter drawn from a range that includes its upper end
JitterRangeInclusive(b, forward) ==
    LET min_range == IF forward THEN 0 ELSE -JitterBound(b)
        max_range == JitterBound(b)
    IN  min_range .. max_range

\* the values randrange(min_range, max_range) of wait can return
JitterRange(b, forward) ==
    LET min_range == IF forward THEN 0 ELSE -JitterBound(b)
        max_range == JitterBound(b)
    IN  min_range .. (max_range - 1)

(***************************************************************************)
(* Growth scheduler (randomize_sess_ts).                                   *)
(***************************************************************************)
\* the branch of randomize_sess_ts the growth argument selects
GrowthShape(g) ==
    IF g \in {"lineal", "lin", "linear"} THEN "linear"
    ELSE IF g \in {"exp", "exponential"} THEN "exponential"
    ELSE "uniform"

\* The raw draws, in units of 1/DrawDen: triangular(0, 1, 0) in [0, 1],
\* expovariate(1 / 1.5) in [0, oo), random() in [0, 1).
GrowthDraws(g) ==
    IF g \in {"lineal", "lin", "linear"} THEN 0 .. DrawDen
    ELSE IF g \in {"exp", "exponential"}
         THEN {0, 1, ExpCap * DrawDen - 1, ExpCap * DrawDen,
               ExpCap * DrawDen + 1}
         ELSE 0 .. (DrawDen - 1)

\* the exponential shape scaled without its clamp at ExpCap
GrowthRatioNoClamp(g, x) ==
    IF g \in {"lineal", "lin", "linear"}
    THEN [num |-> DrawDen - x, den |-> DrawDen]
    ELSE IF g \in {"exp", "exponential"}
         THEN [num |-> ExpCap * DrawDen - x, den |-> ExpCap * DrawDen]
         ELSE [num |-> x, den |-> DrawDen]

\* ratio as computed from the draw x
GrowthRatio(g, x) ==
    IF g \in {"lineal", "lin", "linear"}
    THEN [num |-> DrawDen - x, den |-> DrawDen]
    ELSE IF g \in {"exp", "exponential"}
         THEN IF x < ExpCap * DrawDen
              THEN [num |-> ExpCap * DrawDen - x, den |-> ExpCap * DrawDen]
              ELSE [num |-> 1, den |-> 1]
         ELSE [num |-> x, den |-> DrawDen]

\* self.init_time + ratio * (self.stop_time - self.init_time)
SessTs(init, stop, ratio) ==
    init + RoundHalfEven(ratio.num * (stop - init), ratio.den)

(***************************************************************************)
(* Arrival sampler (create_sessions).                                      *)
(***************************************************************************)
\* int(self.rate)
IntRate(r) == Trunc(r.num, r.den)

\* self.rate % 1 is positive (Python's % takes the sign of the divisor)
HasFraction(r) == r.num % r.den # 0

\* the extra arrival drawn whatever the fractional part of the rate
BernoulliAlways(r) == {1, 0}

\* choices([1, 0], cum_weights=[(self.rate % 1), 1])[0]
Bernoulli(r) == IF HasFraction(r) THEN {1, 0} ELSE {0}

\* range(n_users)
NewCount(n_users) == IF n_users > 0 THEN n_users ELSE 0

(***************************************************************************)
(* Registry advance / prune (update_all_sessions).                         *)
(***************************************************************************)
\* list.remove(x): drop the first element equal to x
RECURSIVE ListRemove(_, _)
ListRemove(list, x) ==
    IF list = <<>> THEN <<>>
    ELSE IF SameObject(Head(list), x) THEN Tail(list)
    ELSE <<Head(list)>> \o ListRemove(Tail(list), x)

\* the object s as the list holds it after s was mutated in place
Mutate(list, s) ==
    [i \in 1 .. Len(list) |->
        IF SameObject(list[i], s) THEN s ELSE list[i]]

\* the for loop walking self.cur_sessions itself while it shrinks
IterLive(copy, live) == live

\* the sequence the for loop walks: list(self.cur_sessions), a copy
IterSource(copy, live) == copy

\* the timestamp of session s advanced to the simulation clock's elapsed time
AdvanceToClock(s, elapsed) == init_time + elapsed

\* session.current_timestamp + self.get_curr_duration()
AdvanceTo(s, elapsed) == s.current_timestamp + elapsed

\* for session in list(self.cur_sessions): update, then remove if inactive.
\* outs[id] is what the update of session id leaves in it; log.advanced is
\* the calls of update made, with their arguments.
RECURSIVE UpdateLoop(_, _, _, _, _, _, _)
UpdateLoop(i, copy, live, outs, elapsed, forward, log) ==
    LET iter == IterSource(copy, live)
    IN  IF i > Len(iter)
        THEN [sessions |-> live, advanced |-> log.advanced,
              inactive |-> log.inactive]
        ELSE LET s == iter[i]
                 s2 == EventUpdate(s, AdvanceTo(s, elapsed), forward,
                                   outs[s.id])
                 live2 == Mutate(live, s2)
                 gone == ~IsActive(s2)
                 live3 == IF gone THEN ListRemove(live2, s2) ELSE live2
             IN  UpdateLoop(i + 1, copy, live3, outs, elapsed, forward,
                            [advanced |->
                                Append(log.advanced,
                                       [id |-> s.id,
                                        timestamp |-> AdvanceTo(s, elapsed),
                                        always_forward |-> forward]),
                             inactive |-> IF gone
                                          THEN log.inactive \cup {s.id}
                                          ELSE log.inactive])

Ids(list) == {list[i].id : i \in 1 .. Len(list)}

IdSeq(list) == [i \in 1 .. Len(list) |-> list[i].id]

(***************************************************************************)
(* Emission policy and formatting (run, yield_event).                      *)
(***************************************************************************)
\* the policy without its page-view branch
YieldCustomOnly(s) ==
    IF s.custom_event # "pageview"
    THEN IF s.modal_event # s.custom_event THEN TRUE
         ELSE ~Xor(s.modal, s.yield_modal)
    ELSE FALSE

\* the policy yielding the modal event whenever yield_modal is set
YieldWhenYieldModal(s) ==
    IF s.is_new_page THEN TRUE
    ELSE IF ~s.is_new_page /\ s.custom_event # "pageview"
         THEN IF s.modal_event # s.custom_event THEN TRUE
              ELSE s.yield_modal
         ELSE FALSE

\* the policy putting every custom event under the modal rule
YieldAllUnderModalRule(s) ==
    IF s.is_new_page THEN TRUE
    ELSE IF ~s.is_new_page /\ s.custom_event # "pageview"
         THEN ~Xor(s.modal, s.yield_modal)
         ELSE FALSE

\* whether the for loop of run yields an event for session s
ShouldYield(s) ==
    IF s.is_new_page THEN TRUE
    ELSE IF ~s.is_new_page /\ s.custom_event # "pageview"
         THEN IF s.modal_event # s.custom_event THEN TRUE
              ELSE ~Xor(s.modal, s.yield_modal)
         ELSE FALSE

\* datetime.isoformat() / date.isoformat(): the calendar fields as text
IsoFormat(obj) ==
    IF obj.type = "datetime"
    THEN [day |-> obj.value \div (24 * SecondsPerHour),
          hour |-> Hour(obj.value),
          minute |-> (obj.value \div 60) % 60,
          second |-> obj.value % 60]
    ELSE [day |-> obj.value]

\* a json_serial that falls back on the value's repr for an unknown type
JsonSerialLenient(obj) ==
    IF obj.type \in {"datetime", "date"}
    THEN [ok |-> TRUE, text |-> IsoFormat(obj)]
    ELSE [ok |-> TRUE, text |-> obj.value]

\* json_serial(obj): the default hook of json.dumps
JsonSerial(obj) ==
    IF obj.type \in {"datetime", "date"}
    THEN [ok |-> TRUE, text |-> IsoFormat(obj)]
    ELSE [ok |-> FALSE,
          error |-> "TypeError: Type " \o obj.type \o " not serializable"]

\* json.dumps on one value: primitives and containers (of primitives)
\* natively, the rest through default
JsonValue(obj) ==
    IF obj.type \in Primitives \cup Containers
    THEN [ok |-> TRUE, text |-> obj.value]
    ELSE JsonSerial(obj)

\* json.dumps(record, default=json_serial): the fields in order, the first
\* failure raised
JsonDumps(record) ==
    LET id == JsonValue([type |-> "int", value |-> record.session])
        ts == JsonValue([type |-> "datetime", value |-> record.timestamp])
        user == JsonValue(record.user)
    IN  IF ~id.ok THEN id
        ELSE IF ~ts.ok THEN ts
        ELSE IF ~user.ok THEN user
        ELSE [ok |-> TRUE,
              text |-> [session |-> id.text, timestamp |-> ts.text,
                        user |-> user.text]]

\* yield_event(session): json text or the dict; form "raise" when json.dumps
\* raised
YieldEvent(s, as_json) ==
    IF as_json
    THEN LET r == JsonDumps(AsDict(s))
         IN  IF r.ok
             THEN [form |-> "json", record |-> AsDict(s), text |-> r.text]
             ELSE [form |-> "raise", error |-> r.error]
    ELSE [form |-> "dict", record |-> AsDict(s)]

(***************************************************************************)
(* State machine.                                                          *)
(***************************************************************************)
ZeroRate == [num |-> 0, den |-> 1]

\* The reference call Simulation(..., batch_size=4, init_time=<the time of
\* the call>, sim_days=8 s, growth=None, always_forward=True,
\* yield_as_json=False) on a configuration whose yield_modal is off and whose
\* user profiles carry strings.  The calls explored differ from it in at
\* most one respect; the start time (the argument and the moment of the
\* call) counts as one, and so does the output (its form and the type of
\* the values written).  The moment of the call is read by nothing when a
\* start time is passed, and the type of a profile's value by json.dumps
\* only: they vary with an omitted start time and with text output.
Differs(a, b) == IF a = b THEN 0 ELSE 1

Deviations(c) ==
    Differs(c.sim_days, 8) + Differs(c.batch_size, 4)
    + Differs(c.growth, None) + Differs(c.always_forward, TRUE)
    + Differs(<<c.yield_as_json, c.user_pool>>, <<FALSE, {"str"}>>)
    + Differs(c.yield_modal, FALSE)
    + Differs(<<c.init_time, c.at>>, <<<<c.imported>>, c.imported>>)

AllCalls ==
    [sim_days : SimDaysSet, batch_size : BatchSizes, growth : GrowthModes,
     always_forward : BOOLEAN, yield_as_json : BOOLEAN,
     yield_modal : BOOLEAN, user_pool : Pools,
     init_time : {<<>>} \cup {<<t>> : t \in InitTimes},
     imported : ImportTimes,
     at : ConstructionTimes]

ExploredCalls ==
    {c \in AllCalls :
        /\ Deviations(c) <= 1
        /\ c.init_time # <<>> => c.at = c.imported
        /\ ~c.yield_as_json => c.user_pool = {"str"}}

\* The value the parameter init_time is bound to: the argument, or the
\* default, which the def statement evaluated once.
InitTimeParam(arg, defined, called) ==
    IF arg = <<>> THEN defined ELSE arg[1]

\* The caller has chosen the constructor's arguments among calls; no object
\* exists yet.
InitFrom(calls) ==
    /\ pc = "init"
    /\ err = None
    /\ \E c \in calls :
         /\ sim_days = c.sim_days
         /\ batch_size = c.batch_size
         /\ growth = c.growth
         /\ always_forward = c.always_forward
         /\ yield_as_json = c.yield_as_json
         /\ yield_modal = c.yield_modal
         /\ user_pool = c.user_pool
         /\ init_time_arg = c.init_time
         /\ def_time = c.imported
         /\ ctor_time = c.at
    /\ sessions_per_day \in SessionsPerDaySet
    /\ init_time = InitTimeParam(init_time_arg, def_time, ctor_time)
    /\ cur_time = init_time
    /\ stop_time = init_time
    /\ rate = ZeroRate
    /\ qty_events = 0
    /\ cur_sessions = <<>>
    /\ next_id = 1
    /\ duration_seconds = 0
    /\ start = 0
    /\ wall = 0
    /\ steps = 0
    /\ idx = 0
    /\ prev_time = init_time
    /\ snapshot = <<>>
    /\ advanced = <<>>
    /\ inactive = {}
    /\ draws = <<>>
    /\ visit = <<>>
    /\ emitted = <<>>
    /\ yielded = 0

Init == InitFrom(ExploredCalls)

\* The exception __init__ raises for these arguments, None when it returns.
InitError(days, b) ==
    IF ~(days > 0) THEN "AssertionError"
    ELSE IF b = 0 THEN "ZeroDivisionError"
    ELSE None

\* Simulation.__init__ returns.
Construct ==
    /\ pc = "init"
    /\ InitError(sim_days, batch_size) = None
    /\ pc' = "ready"
    /\ cur_sessions' = <<>>
    /\ cur_time' = init_time
    /\ stop_time' = init_time + sim_days
    /\ qty_events' = 0
    /\ rate' = RatePerStep(init_time, sessions_per_day, batch_size)
    /\ UNCHANGED <<err, inputs, next_id,
                   duration_seconds, start, wall, steps, idx, prev_time,
                   snapshot, advanced, inactive, draws, visit, emitted,
                   yielded>>

\* Simulation.__init__ raises: the assert on sim_days, or the division by a
\* zero batch_size in get_steps_per_hour.
ConstructFail ==
    /\ pc = "init"
    /\ InitError(sim_days, batch_size) # None
    /\ pc' = "ctor_error"
    /\ err' = InitError(sim_days, batch_size)
    /\ UNCHANGED <<inputs, cur_time,
                   stop_time, rate, qty_events, cur_sessions, next_id,
                   duration_seconds, start, wall, steps, idx, prev_time,
                   snapshot, advanced, inactive, draws, visit, emitted,
                   yielded>>

\* the loop test letting a step begin when the budget is just used up
LoopContinuesInclusive(now, began, budget) == now - began <= budget

\* time() - start < duration_seconds
LoopContinues(now, began, budget) == now - began < budget

\* a step that advances the clock before it samples the arrivals
AfterWaitFirst(phase) ==
    IF phase = "update" THEN "wait"
    ELSE IF phase = "wait" THEN "create"
    ELSE IF phase = "create" THEN "emit"
    ELSE "check"

\* The body of the while loop of run: what follows each of its statements.
After(phase) ==
    IF phase = "update" THEN "create"
    ELSE IF phase = "create" THEN "wait"
    ELSE IF phase = "wait" THEN "emit"
    ELSE "check"

\* run(duration_seconds) up to its first test of the loop: start = time()
Run ==
    /\ pc = "ready"
    /\ \E d \in Durations : duration_seconds' = d
    /\ start' = wall
    /\ pc' = "check"
    /\ UNCHANGED <<err, inputs, cur_time,
                   stop_time, rate, qty_events, cur_sessions, next_id, wall,
                   steps, idx, prev_time, snapshot, advanced, inactive,
                   draws, visit, emitted, yielded>>

\* Wall-clock time passes.  time() is read by the loop test only, so the
\* time a step took is seen when the test is reached.
Tick ==
    /\ pc = "check"
    /\ LoopContinues(wall, start, duration_seconds)
    /\ wall' = wall + 1
    /\ UNCHANGED <<pc, err, inputs, cur_time,
                   stop_time, rate, qty_events, cur_sessions, next_id,
                   duration_seconds, start, steps, idx, prev_time, snapshot,
                   advanced, inactive, draws, visit, emitted, yielded>>

\* while time() - start < duration_seconds: true, a step begins
LoopEnter ==
    /\ pc = "check"
    /\ LoopContinues(wall, start, duration_seconds)
    /\ steps < MaxSteps
    /\ steps' = steps + 1
    /\ pc' = "update"
    /\ snapshot' = <<>>
    /\ advanced' = <<>>
    /\ inactive' = {}
    /\ draws' = <<>>
    /\ visit' = <<>>
    /\ emitted' = <<>>
    /\ UNCHANGED <<err, inputs, cur_time,
                   stop_time, rate, qty_events, cur_sessions, next_id,
                   duration_seconds, start, wall, idx, prev_time, yielded>>

\* while time() - start < duration_seconds: false, the generator returns
LoopExit ==
    /\ pc = "check"
    /\ ~LoopContinues(wall, start, duration_seconds)
    /\ pc' = "done"
    /\ UNCHANGED <<err, inputs, cur_time,
                   stop_time, rate, qty_events, cur_sessions, next_id,
                   duration_seconds, start, wall, steps, idx, prev_time,
                   snapshot, advanced, inactive, draws, visit, emitted,
                   yielded>>

\* self.update_all_sessions()
UpdateAllSessions ==
    /\ pc = "update"
    /\ \E outs \in [Ids(cur_sessions) -> UpdateOutcomes] :
         LET r == UpdateLoop(1, cur_sessions, cur_sessions, outs,
                             CurrDuration(cur_time, init_time),
                             always_forward,
                             [advanced |-> <<>>, inactive |-> {}])
         IN  /\ cur_sessions' = r.sessions
             /\ advanced' = r.advanced
             /\ inactive' = r.inactive
    /\ snapshot' = IdSeq(cur_sessions)
    /\ pc' = After("update")
    /\ UNCHANGED <<err, inputs, cur_time,
                   stop_time, rate, qty_events, next_id, duration_seconds,
                   start, wall, steps, idx, prev_time, draws, visit,
                   emitted, yielded>>

\* self.create_sessions()
CreateSessions ==
    /\ pc = "create"
    /\ \E extra \in Bernoulli(rate) :
         LET n_users == IntRate(rate) + extra
             count == NewCount(n_users)
         IN  \E xs \in [1 .. count -> GrowthDraws(growth)],
                us \in [1 .. count -> user_pool] :
               LET made == [i \in 1 .. count |->
                              [x |-> xs[i],
                               shape |-> GrowthShape(growth),
                               ratio |-> GrowthRatio(growth, xs[i]),
                               session |->
                                 EventInit(next_id + i - 1,
                                           SessTs(init_time, stop_time,
                                                  GrowthRatio(growth, xs[i])),
                                           yield_modal, GetUser(us[i]))]]
               IN  /\ cur_sessions' = cur_sessions \o
                                      [i \in 1 .. count |-> made[i].session]
                   /\ draws' = made
                   /\ next_id' = next_id + count
    /\ pc' = After("create")
    /\ UNCHANGED <<err, inputs, cur_time,
                   stop_time, rate, qty_events, duration_seconds, start,
                   wall, steps, idx, prev_time, snapshot, advanced, inactive,
                   visit, emitted, yielded>>

\* self.wait(self.always_forward)
Wait ==
    /\ pc = "wait"
    /\ \E j \in JitterRange(batch_size, always_forward) :
         /\ cur_time' = cur_time + batch_size + j
         /\ rate' = RatePerStep(cur_time + batch_size + j, sessions_per_day,
                                batch_size)
    /\ prev_time' = cur_time
    /\ idx' = 1
    /\ pc' = After("wait")
    /\ UNCHANGED <<err, inputs, stop_time,
                   qty_events, cur_sessions, next_id, duration_seconds,
                   start, wall, steps, snapshot, advanced, inactive, draws,
                   visit, emitted, yielded>>

\* self.wait(self.always_forward) when randrange is given an empty range:
\* ValueError leaves run, self.cur_time untouched.
WaitError ==
    /\ pc = "wait"
    /\ JitterRange(batch_size, always_forward) = {}
    /\ err' = "ValueError"
    /\ pc' = "error"
    /\ UNCHANGED <<inputs, cur_time,
                   stop_time, rate, qty_events, cur_sessions, next_id,
                   duration_seconds, start, wall, steps, idx, prev_time,
                   snapshot, advanced, inactive, draws, visit, emitted,
                   yielded>>

\* for session in self.cur_sessions: one branch yields
EmitYield ==
    /\ pc = "emit"
    /\ idx <= Len(cur_sessions)
    /\ ShouldYield(cur_sessions[idx])
    /\ YieldEvent(cur_sessions[idx], yield_as_json).form # "raise"
    /\ emitted' = Append(emitted, YieldEvent(cur_sessions[idx], yield_as_json))
    /\ yielded' = yielded + 1
    /\ visit' = <<[session |-> cur_sessions[idx], count |-> 1]>>
    /\ idx' = idx + 1
    /\ UNCHANGED <<pc, err, inputs, cur_time,
                   stop_time, rate, qty_events, cur_sessions, next_id,
                   duration_seconds, start, wall, steps, prev_time, snapshot,
                   advanced, inactive, draws>>

\* for session in self.cur_sessions: a branch calls yield_event and
\* json.dumps raises; the exception leaves the generator, nothing is yielded
EmitError ==
    /\ pc = "emit"
    /\ idx <= Len(cur_sessions)
    /\ ShouldYield(cur_sessions[idx])
    /\ YieldEvent(cur_sessions[idx], yield_as_json).form = "raise"
    /\ err' = YieldEvent(cur_sessions[idx], yield_as_json).error
    /\ pc' = "error"
    /\ visit' = <<[session |-> cur_sessions[idx], count |-> 0]>>
    /\ UNCHANGED <<inputs, cur_time,
                   stop_time, rate, qty_events, cur_sessions, next_id,
                   duration_seconds, start, wall, steps, idx, prev_time,
                   snapshot, advanced, inactive, draws, emitted, yielded>>

\* for session in self.cur_sessions: no branch yields
EmitSkip ==
    /\ pc = "emit"
    /\ idx <= Len(cur_sessions)
    /\ ~ShouldYield(cur_sessions[idx])
    /\ visit' = <<[session |-> cur_sessions[idx], count |-> 0]>>
    /\ idx' = idx + 1
    /\ UNCHANGED <<pc, err, inputs, cur_time,
                   stop_time, rate, qty_events, cur_sessions, next_id,
                   duration_seconds, start, wall, steps, prev_time, snapshot,
                   advanced, inactive, draws, emitted, yielded>>

\* the for loop is exhausted: back to the loop test
EmitEnd ==
    /\ pc = "emit"
    /\ idx > Len(cur_sessions)
    /\ pc' = After("emit")
    /\ UNCHANGED <<err, inputs, cur_time,
                   stop_time, rate, qty_events, cur_sessions, next_id,
                   duration_seconds, start, wall, steps, idx, prev_time,
                   snapshot, advanced, inactive, draws, visit, emitted,
                   yielded>>

Next ==
    \/ Construct
    \/ ConstructFail
    \/ Run
    \/ Tick
    \/ LoopEnter
    \/ LoopExit
    \/ UpdateAllSessions
    \/ CreateSessions
    \/ Wait
    \/ WaitError
    \/ EmitYield
    \/ EmitError
    \/ EmitSkip
    \/ EmitEnd

Spec == Init /\ [][Next]_vars

\* Calls with a horizon of 3 s, which one step overruns, or with a sim_days
\* that is refused, or writing text from profiles json.dumps refuses; the
\* other arguments as in the reference call, apart from batch_size: the loop
\* of run reads neither growth nor the start time.
LoopCalls ==
    {c \in AllCalls :
        /\ c.growth = None
        /\ c.always_forward
        /\ ~c.yield_modal
        /\ c.init_time = <<c.imported>>
        /\ c.at = c.imported
        /\ \/ /\ ~c.yield_as_json
              /\ c.user_pool = {"str"}
              /\ \/ c.sim_days = 3 /\ c.batch_size \in {-4, 0, 3, 4}
                 \/ c.sim_days \in {-8, 0} /\ c.batch_size = 4
           \/ /\ c.yield_as_json
              /\ c.user_pool = {"str", "set"}
              /\ c.sim_days = 3
              /\ c.batch_size = 4}

InitLoop == InitFrom(LoopCalls)

\* The wall clock advances (each test of the loop may find time has passed)
\* and the consumer keeps pulling from the generator.
LiveSpec == InitLoop /\ [][Next]_vars /\ WF_vars(Tick) /\ WF_vars(Next)

(***************************************************************************)
(* One step of update_all_sessions from a registry of n sessions.  The     *)
(* registry is the one the reference call holds at the start of step n + 1 *)
(* when each earlier step created one session at ratio 0 and no session    *)
(* ended or left its page: steps take batch_size seconds (forward jitter   *)
(* is 0 for batch_size 4), session i was advanced in steps i + 1 .. n and  *)
(* yielded a page view in each of the steps i .. n.                        *)
(***************************************************************************)
RECURSIVE ElapsedSum(_, _, _)
\* the elapsed durations handed to update in steps from .. to
ElapsedSum(b, from, to) ==
    IF from > to THEN 0 ELSE b * (from - 1) + ElapsedSum(b, from + 1, to)

RegistryOf(n, b, init, ym, user) ==
    [i \in 1 .. n |-> EventInit(i, init + ElapsedSum(b, i + 1, n), ym, user)]

InitRegistry ==
    /\ pc = "update"
    /\ err = None
    /\ sim_days = 8
    /\ batch_size = 4
    /\ sessions_per_day \in SessionsPerDaySet
    /\ growth = None
    /\ always_forward = TRUE
    /\ yield_as_json = FALSE
    /\ yield_modal = FALSE
    /\ user_pool = {"str"}
    /\ init_time_arg \in {<<t>> : t \in InitTimes}
    /\ def_time \in ImportTimes
    /\ ctor_time = def_time
    /\ init_time = InitTimeParam(init_time_arg, def_time, ctor_time)
    /\ \E n \in 0 .. MaxRegistry :
         /\ steps = n + 1
         /\ cur_time = init_time + batch_size * n
         /\ prev_time = IF n = 0 THEN init_time
                        ELSE init_time + batch_size * (n - 1)
         /\ cur_sessions = RegistryOf(n, batch_size, init_time, yield_modal,
                                      GetUser("str"))
         /\ next_id = n + 1
         /\ yielded = (n * (n + 1)) \div 2
    /\ stop_time = init_time + sim_days
    /\ rate = RatePerStep(cur_time, sessions_per_day, batch_size)
    /\ qty_events = 0
    /\ duration_seconds = 1
    /\ start = 0
    /\ wall = 0
    /\ idx = Len(cur_sessions) + 1
    /\ snapshot = <<>>
    /\ advanced = <<>>
    /\ inactive = {}
    /\ draws = <<>>
    /\ visit = <<>>
    /\ emitted = <<>>

NextRegistry == UpdateAllSessions

SpecRegistry == InitRegistry /\ [][NextRegistry]_vars

(***************************************************************************)
(* Properties.                                                             *)
(***************************************************************************)
\* the elements of seq, in order, that are not in the set gone
RECURSIVE Without(_, _)
Without(seq, gone) ==
    IF seq = <<>> THEN <<>>
    ELSE IF Head(seq) \in gone THEN Without(Tail(seq), gone)
    ELSE <<Head(seq)>> \o Without(Tail(seq), gone)

Range(seq) == {seq[i] : i \in 1 .. Len(seq)}

\* C1: after update_all_sessions on a registry of N sessions of which K
\* reported inactive, the registry holds exactly N - K sessions: precisely
\* the sessions that were advanced and reported active, every one of them
\* still active, in their original insertion order.
C1_PruningCorrect ==
    pc = "create" =>
        /\ Len(cur_sessions) = Len(snapshot) - Cardinality(inactive)
        /\ IdSeq(cur_sessions) = Without(snapshot, inactive)
        /\ Ids(cur_sessions) = {a.id : a \in Range(advanced)} \ inactive
        /\ inactive \subseteq Range(snapshot)
        /\ \A i \in 1 .. Len(cur_sessions) : IsActive(cur_sessions[i])

\* C1 witness: three sessions, the middle one reported inactive and the two
\* others are kept in order.
C1_Witness ==
    /\ pc = "create"
    /\ Len(snapshot) = 3
    /\ inactive = {snapshot[2]}
    /\ IdSeq(cur_sessions) = <<snapshot[1], snapshot[3]>>

\* the number of events of the current step that are session s's
YieldedFor(s) ==
    Cardinality({e \in 1 .. Len(emitted) : emitted[e].record.session = s.id})

\* the sessions the for loop of the current step has evaluated so far
Visited ==
    IF pc = "emit" THEN {cur_sessions[k] : k \in 1 .. (idx - 1)} ELSE {}

\* custom_event is set and is not the literal "pageview"
IsCustom(s) == s.custom_event # None /\ s.custom_event # "pageview"

\* C2: every session the emission phase evaluates with is_new_page true
\* yields exactly one event in that step, whatever its other fields.
C2_PageViewEmits ==
    \A s \in Visited : s.is_new_page => YieldedFor(s) = 1

\* C2 witness: a page view was yielded for a session whose other fields
\* would not let a custom event through.
C2_Witness ==
    \E s \in Visited :
        /\ s.is_new_page
        /\ s.custom_event = "pageview"
        /\ s.modal # s.yield_modal
        /\ YieldedFor(s) = 1

C4_NoEmission ==
    \A s \in Visited :
        (~s.is_new_page /\ ~IsCustom(s)) => YieldedFor(s) = 0

\* C5: a session with is_new_page false whose custom event is set, is not
\* "pageview" and is not the modal event yields exactly one event in the
\* step, whatever modal and yield_modal are.
C5_NonModalEmits ==
    \A s \in Visited :
        (~s.is_new_page /\ IsCustom(s) /\ s.custom_event # s.modal_event)
            => YieldedFor(s) = 1

\* C5 witness: a non-modal custom event was yielded although modal and
\* yield_modal differ.
C5_Witness ==
    \E s \in Visited :
        /\ ~s.is_new_page
        /\ s.custom_event = "click"
        /\ s.modal # s.yield_modal
        /\ YieldedFor(s) = 1

\* C6: self.cur_time is never below self.init_time, and with
\* always_forward a wait leaves it at or above its value before the call.
C6_ClockDirection ==
    /\ cur_time >= init_time
    /\ always_forward => cur_time >= prev_time

\* C6 witness: without always_forward, two waits were made and the last one
\* drew a backward jitter.
C6_Witness ==
    /\ pc = "emit"
    /\ steps = 2
    /\ ~always_forward
    /\ cur_time - prev_time < batch_size
    /\ cur_time > init_time

\* C7: the timestamp of every event run yields lies within
\* [init_time, stop_time].
C7_EventTimestampInHorizon ==
    \A e \in 1 .. Len(emitted) :
        /\ init_time <= emitted[e].record.timestamp
        /\ emitted[e].record.timestamp <= stop_time

\* a [num, den] pair as a comparison of rationals, den > 0
RatEq(r, n, d) == r.num * d = n * r.den

\* C8: every ratio randomize_sess_ts draws lies in [0, 1], so the timestamp
\* a new session is created with lies within [init_time, stop_time]; in
\* exponential mode a draw x < 8 gives (8 - x) / 8 and a draw x >= 8 gives 1.
C8_GrowthRange ==
    \A i \in 1 .. Len(draws) :
        LET d == draws[i]
        IN  /\ d.ratio.den > 0
            /\ 0 <= d.ratio.num /\ d.ratio.num <= d.ratio.den
            /\ init_time <= d.session.current_timestamp
            /\ d.session.current_timestamp <= stop_time
            /\ growth \in {"exp", "exponential"} =>
                 /\ d.x < ExpCap * DrawDen =>
                        RatEq(d.ratio, ExpCap * DrawDen - d.x,
                              ExpCap * DrawDen)
                 /\ d.x >= ExpCap * DrawDen => RatEq(d.ratio, 1, 1)

\* C8 witness: in exponential mode a draw above 8 placed a new session at
\* the end of the horizon.
C8_Witness ==
    /\ growth = "exp"
    /\ \E i \in 1 .. Len(draws) :
         /\ draws[i].x > ExpCap * DrawDen
         /\ draws[i].session.current_timestamp = stop_time

\* run has returned or raised, or the object was never built
Ended == pc \in {"done", "error", "ctor_error"}

\* C9: whenever run leaves the test of its loop, it begins a step exactly
\* when the wall-clock time elapsed is below duration_seconds and returns
\* otherwise, whatever self.cur_time is; and with the wall clock advancing
\* run ends, so the yielded sequence is finite.
C9_WallClockGovernsLoop ==
    /\ [][(pc = "check" /\ pc' # "check") =>
            /\ pc' \in {"update", "done"}
            /\ pc' = "update" <=> wall - start < duration_seconds]_vars
    /\ <>Ended

\* C9 witness: a step begins although self.cur_time has reached
\* self.stop_time.
C9_Witness ==
    /\ pc = "update"
    /\ steps = 2
    /\ cur_time > stop_time
    /\ wall - start < duration_seconds

\* C10: a Simulation whose sim_days or batch_size is not positive is never
\* constructed: __init__ raises, so no step runs and no event is produced.
C10_ConstructionValidates ==
    (sim_days <= 0 \/ batch_size <= 0) =>
        /\ pc \in {"init", "ctor_error"}
        /\ steps = 0
        /\ emitted = <<>>

\* str.lower() on the growth strings explored
Lower(g) == IF g = "LINEAR" THEN "linear" ELSE g

\* the shape the growth string stands for when its casing is ignored
ShapeIgnoringCase(g) ==
    IF g = None THEN "uniform"
    ELSE IF Lower(g) \in {"lineal", "lin", "linear"} THEN "linear"
    ELSE IF Lower(g) \in {"exp", "exponential"} THEN "exponential"
    ELSE "uniform"

\* C11: every timestamp randomize_sess_ts draws comes from the shape the
\* growth string selects when matched case-insensitively: any casing of
\* "lineal", "lin" or "linear" the linear shape, any casing of "exp" or
\* "exponential" the exponential shape, every other value (None included)
\* the uniform shape.
C11_GrowthDispatch ==
    \A i \in 1 .. Len(draws) : draws[i].shape = ShapeIgnoringCase(growth)

\* C12: a Simulation constructed without a start time has the moment of its
\* construction as self.init_time, and as self.cur_time until the first
\* wait.
C12_DefaultInitTime ==
    (init_time_arg = <<>> /\ pc \notin {"init", "ctor_error"}) =>
        /\ init_time = ctor_time
        /\ pc = "ready" => cur_time = ctor_time

\* the for loop of run stands on session s and a branch of it yields
Emitting(s) ==
    /\ pc = "emit"
    /\ idx <= Len(cur_sessions)
    /\ s = cur_sessions[idx]
    /\ ShouldYield(s)

\* With text output, the step of run that reaches an event whose record
\* holds a value of a type outside supported ends run with the TypeError
\* naming that type, and yields nothing.
FailsOutside(supported) ==
    \A s \in Range(cur_sessions) :
        (Emitting(s) /\ yield_as_json /\ s.user.type \notin supported) =>
            /\ pc' = "error"
            /\ err' = "TypeError: Type " \o s.user.type \o " not serializable"
            /\ emitted' = emitted
            /\ yielded' = yielded

\* every text yielded carries its timestamps as their ISO-8601 fields
IsoTimestamps ==
    \A e \in 1 .. Len(emitted) :
        emitted[e].form = "json" =>
            LET ts == emitted[e].record.timestamp
                user == emitted[e].record.user
            IN  /\ emitted[e].text.timestamp =
                     [day |-> ts \div 86400, hour |-> (ts \div 3600) % 24,
                      minute |-> (ts \div 60) % 60, second |-> ts % 60]
                /\ user.type = "date" =>
                     emitted[e].text.user = [day |-> user.value]

\* C13: with text output, an event whose record holds a value that is
\* neither a primitive nor a timestamp is not yielded: run ends at it with
\* an error naming the value's type, nothing partial is yielded and the
\* events yielded before it stay as they were; timestamps are written as
\* their ISO-8601 text.
C13_SerializationFailure ==
    /\ [][FailsOutside(Primitives \cup {"datetime", "date"})]_vars
    /\ []IsoTimestamps

\* C13 as amended: the same, for a value that is neither a timestamp nor of
\* a type json encodes by itself (a primitive, or a list, tuple or dict of
\* such values).
C13_SerializationFailureNative ==
    /\ [][FailsOutside(Primitives \cup Containers
                       \cup {"datetime", "date"})]_vars
    /\ []IsoTimestamps

\* C13 witness: in a step of text output one event was yielded, and the next
\* one, holding a set, ended run.
C13_Witness ==
    /\ pc = "error"
    /\ err = "TypeError: Type set not serializable"
    /\ Len(emitted) = 1
    /\ emitted[1].form = "json"
    /\ emitted[1].text.timestamp.hour = 1

\* the ids of the sessions of list for which the for loop of run yields
RECURSIVE YieldingIds(_)
YieldingIds(list) ==
    IF list = <<>> THEN <<>>
    ELSE IF ShouldYield(Head(list))
         THEN <<Head(list).id>> \o YieldingIds(Tail(list))
         ELSE YieldingIds(Tail(list))

\* the order of the phases of one iteration of run
PhaseOrder ==
    /\ pc = "update" => pc' \in {"update", "create"}
    /\ pc = "create" => pc' \in {"create", "wait"}
    /\ pc = "wait" => pc' \in {"wait", "emit", "error"}
    /\ pc = "emit" => pc' \in {"emit", "check", "error"}
    /\ pc' = "update" => pc \in {"update", "check"}
    /\ advanced' # advanced => pc \in {"update", "check"}
    /\ Len(cur_sessions') > Len(cur_sessions) => pc = "create"
    /\ cur_time' # cur_time => pc = "wait"
    /\ emitted' # emitted => pc \in {"emit", "check"}

\* the emission in progress or finished: the sessions of the registry
\* evaluated so far, each once, in insertion order
EmissionInOrder ==
    (pc \in {"emit", "check", "done"} /\ steps > 0) =>
        [e \in 1 .. Len(emitted) |-> emitted[e].record.session]
            = YieldingIds(SubSeq(cur_sessions, 1, idx - 1))

\* once the arrivals are sampled, the sessions created in this step close
\* the registry as they were created, and update was not called on them
NewSessionsNotAdvanced ==
    (pc \in {"wait", "emit", "check"} /\ steps > 0) =>
        /\ Len(draws) <= Len(cur_sessions)
        /\ \A i \in 1 .. Len(draws) :
             /\ cur_sessions[Len(cur_sessions) - Len(draws) + i]
                  = draws[i].session
             /\ draws[i].session.id \notin {a.id : a \in Range(advanced)}

\* C14: every iteration of run advances and prunes the registry, samples
\* the arrivals, advances the clock and emits, in this order; the emission
\* visits every session of the registry in insertion order and yields at
\* most one event for each, and the sessions created in the step are
\* evaluated in the same step without having been advanced.
C14_StepOrdering ==
    /\ [][PhaseOrder]_vars
    /\ []EmissionInOrder
    /\ []NewSessionsNotAdvanced

\* C14 witness: the second step is over; it advanced the session of the
\* first step, created another one and yielded an event for each, the older
\* first.
C14_Witness ==
    /\ pc = "check"
    /\ steps = 2
    /\ Len(advanced) = 1
    /\ Len(draws) = 1
    /\ Len(emitted) = 2
    /\ emitted[1].record.session = advanced[1].id
    /\ emitted[2].record.session = draws[1].session.id

\* the calls of update one pass of update_all_sessions owes the registry
UpdatesOwed ==
    [i \in 1 .. Len(cur_sessions) |->
        [id |-> cur_sessions[i].id,
         timestamp |-> cur_sessions[i].current_timestamp
                         + (cur_time - init_time),
         always_forward |-> always_forward]]

\* one pass of update_all_sessions
AdvanceOncePerStep ==
    (pc = "update" /\ pc' = "create") =>
        /\ advanced' = UpdatesOwed
        /\ inactive' \subseteq Ids(cur_sessions)
        /\ IdSeq(cur_sessions') = Without(IdSeq(cur_sessions), inactive')
        /\ \A k \in 1 .. Len(cur_sessions') :
             \E i \in 1 .. Len(cur_sessions) :
                /\ cur_sessions'[k].id = cur_sessions[i].id
                /\ cur_sessions'[k].current_timestamp
                     = UpdatesOwed[i].timestamp

\* C15: update_all_sessions advances every session that is in the registry
\* at the start of the step exactly once, in insertion order, with the
\* arguments (its current_timestamp + (cur_time - init_time),
\* always_forward); removing an inactive session makes no other session be
\* skipped or advanced twice, and removes no session but the one that
\* reported inactive.
C15_AdvanceOncePerStep == [][AdvanceOncePerStep]_vars

\* C15 witness: of three sessions advanced in order the first reported
\* inactive, and the two after it were advanced all the same and are kept.
C15_Witness ==
    /\ pc = "create"
    /\ Len(advanced) = 3
    /\ inactive = {advanced[1].id}
    /\ IdSeq(cur_sessions) = <<advanced[2].id, advanced[3].id>>
    /\ advanced[1].timestamp > advanced[3].timestamp

\* one step of the program seen from the clock: only a wait moves
\* self.cur_time, and it moves it by batch_size + j
JitterStep ==
    /\ cur_time' # cur_time => (pc = "wait" /\ pc' = "emit")
    /\ (pc = "wait" /\ pc' = "emit") =>
         LET j == cur_time' - cur_time - batch_size
             bound == (3 * batch_size) \div 10
         IN  /\ j < bound
             /\ IF always_forward THEN 0 <= j ELSE -bound <= j

\* C16: each wait that returns changes self.cur_time by exactly
\* batch_size + j seconds for an integer j, with j in
\* [0, floor(0.3 * batch_size)) when always_forward is true and in
\* [-floor(0.3 * batch_size), floor(0.3 * batch_size)) otherwise; no other
\* operation changes self.cur_time.
C16_JitterBound == [][JitterStep]_vars

\* C16 witness: a forward wait of a step of 8 seconds drew the largest
\* jitter, 1.
C16_Witness ==
    /\ pc = "emit"
    /\ always_forward
    /\ batch_size = 8
    /\ cur_time - prev_time = batch_size + 1

\* C17: once the object is constructed, and after every wait, self.rate is
\* visits_per_hour[self.cur_time.hour] * sessions_per_day
\* / (3600 / batch_size) for the current self.cur_time, so create_sessions
\* always samples with the rate of the hour the clock was in at the end of
\* the previous step.
C17_RateConsistent ==
    pc \notin {"init", "ctor_error"} =>
        LET hourly_rate == VisitsPerHour((cur_time \div 3600) % 24)
        IN  /\ rate.den > 0
            /\ rate.num * (hourly_rate.den * 3600)
                 = hourly_rate.num * sessions_per_day * batch_size * rate.den

\* C17 witness: the first wait took the clock into the next hour, and the
\* second step samples its arrivals with that hour's rate, 1 per step.
C17_Witness ==
    /\ pc = "create"
    /\ steps = 2
    /\ (init_time \div 3600) % 24 = 0
    /\ (cur_time \div 3600) % 24 = 1
    /\ RatEq(rate, 1, 1)

\* one call of create_sessions
ArrivalStep ==
    (pc = "create" /\ pc' = "wait" /\ rate.num >= 0) =>
        LET n == Len(cur_sessions') - Len(cur_sessions)
            floor == rate.num \div rate.den
        IN  /\ n \in {floor, floor + 1}
            /\ rate.num % rate.den = 0 => n = floor
            /\ SubSeq(cur_sessions', 1, Len(cur_sessions)) = cur_sessions
            /\ Len(draws') = n
            /\ \A i \in 1 .. n :
                 LET s == cur_sessions'[Len(cur_sessions) + i]
                 IN  /\ s = draws'[i].session
                     /\ s.id \notin Ids(cur_sessions)
                     /\ \A k \in 1 .. n : k # i => draws'[k].session.id # s.id
                     /\ s.user.type \in user_pool
                     /\ s.current_timestamp
                          = SessTs(init_time, stop_time, draws'[i].ratio)

\* C18: for a non-negative rate, create_sessions appends exactly n new
\* sessions to the end of the registry, n being floor(rate) or
\* floor(rate) + 1, and floor(rate) whenever rate has no fractional part;
\* it removes or reorders no session, and each new session has one user
\* profile and one growth-scheduled timestamp.
C18_ArrivalCount == [][ArrivalStep]_vars

\* C18 witness: at a rate of exactly 1 a step appended one session behind
\* the session of the step before.
C18_Witness ==
    /\ pc = "wait"
    /\ steps = 2
    /\ RatEq(rate, 1, 1)
    /\ Len(draws) = 1
    /\ Len(cur_sessions) = 2
    /\ cur_sessions[2] = draws[1].session

\* C19: once the object is constructed, and after any number of steps of
\* run, self.qty_events is the number of events run has yielded so far.
C19_EventCounter ==
    pc \notin {"init", "ctor_error"} => qty_events = yielded

\* C20: for every positive batch_size the constructor accepts, 1, 2 and 3
\* included, and for both values of always_forward, wait returns and
\* advances self.cur_time: no step of run ends in its clock-advance phase.
C20_WaitTotal ==
    batch_size > 0 =>
        /\ ~(pc = "error" /\ err = "ValueError")
        /\ pc = "emit" => cur_time > prev_time

====
